---------------------------- MODULE Spec2Model ----------------------------
(***************************************************************************)
(* A model of src/app.py: one Streamlit session of the menu splitter.  A   *)
(* session is a script run of main() that draws the preview, and, once the *)
(* button has been pressed, a second script run that also extracts the     *)
(* cells of the target month into a zip archive.                           *)
(*                                                                         *)
(* Dates are proleptic Gregorian dates handled through their ordinals, as  *)
(* datetime does.  Pixel coordinates are Python floats: IEEE-754 binary64  *)
(* values, kept here as a sign and an exact magnitude in units of          *)
(* 2^-FracBits held in three limbs, rounded to MantissaBits significant    *)
(* bits (nearest, ties to even) after every operation.                     *)
(***************************************************************************)
EXTENDS Integers, Sequences, FiniteSets, TLC

(***************************************************************************)
(* Program constants (src/app.py lines 11-13).                             *)
(***************************************************************************)
DEFAULT_X0 == 108
DEFAULT_Y0 == 145
DEFAULT_X1 == 1685
DEFAULT_Y1 == 1170
DEFAULT_DPI == 150
\* range(7): the seven weekday columns of a page
Columns == 7

(***************************************************************************)
(* datetime: dates, ordinals, timedelta addition, weekday.                 *)
(***************************************************************************)
MkDate(y, m, d) == [year |-> y, month |-> m, day |-> d]

IsLeap(y) == (y % 4 = 0) /\ ((y % 100 # 0) \/ (y % 400 = 0))

DaysInMonth(y, m) ==
    IF m = 2 THEN (IF IsLeap(y) THEN 29 ELSE 28)
    ELSE IF m \in {4, 6, 9, 11} THEN 30 ELSE 31

RECURSIVE DaysBeforeMonth(_, _)
DaysBeforeMonth(y, m) ==
    IF m = 1 THEN 0 ELSE DaysBeforeMonth(y, m - 1) + DaysInMonth(y, m - 1)

DaysBeforeYear(y) ==
    LET p == y - 1 IN p * 365 + (p \div 4) - (p \div 100) + (p \div 400)

ToOrdinal(dt) ==
    DaysBeforeYear(dt.year) + DaysBeforeMonth(dt.year, dt.month) + dt.day

\* datetime._ord2ymd
FromOrdinal(ord) ==
    LET n0   == ord - 1
        n400 == n0 \div 146097
        r400 == n0 % 146097
        n100 == r400 \div 36524
        r100 == r400 % 36524
        n4   == r100 \div 1461
        r4   == r100 % 1461
        n1   == r4 \div 365
        n    == r4 % 365
        y    == n400 * 400 + 1 + n100 * 100 + n4 * 4 + n1
    IN  IF n1 = 4 \/ n100 = 4
        THEN MkDate(y - 1, 12, 31)
        ELSE LET m0 == (n + 50) \div 32
                 p0 == DaysBeforeMonth(y, m0)
                 m  == IF p0 > n THEN m0 - 1 ELSE m0
                 p  == IF p0 > n THEN p0 - DaysInMonth(y, m0 - 1) ELSE p0
             IN  MkDate(y, m, n - p + 1)

\* date + timedelta(days=k)
DateAdd(dt, k) == FromOrdinal(ToOrdinal(dt) + k)

\* date.weekday(): Monday = 0
Weekday(dt) == (ToOrdinal(dt) + 6) % 7

\* the days of a year that is not a leap year
DaysInCommonYear == DaysBeforeMonth(2026, 12) + DaysInMonth(2026, 12)

(***************************************************************************)
(* Python floats.                                                          *)
(***************************************************************************)
MantissaBits == 53
FracBits == 58
LimbBits == 23
LimbBase == 2 ^ LimbBits
\* the weight of the high limb's unit is 2^(2*LimbBits - FracBits) = 2^-IntShift
IntShift == FracBits - 2 * LimbBits
IntScale == 2 ^ IntShift

MkFloat(s, h, m, l) ==
    [neg |-> s /\ (h + m + l > 0), hi |-> h, mid |-> m, lo |-> l]

\* carries pushed up through the limbs
Carry(s, h, m, l) ==
    LET m1 == m + (l \div LimbBase)
    IN  MkFloat(s, h + (m1 \div LimbBase), m1 % LimbBase, l % LimbBase)

Log2(x) == CHOOSE k \in 0..(LimbBits - 1) : 2 ^ k <= x /\ x < 2 ^ (k + 1)

TopBit(f) ==
    IF f.hi > 0 THEN 2 * LimbBits + Log2(f.hi)
    ELSE IF f.mid > 0 THEN LimbBits + Log2(f.mid)
    ELSE Log2(f.lo)

\* round an exact magnitude (plus a sticky remainder below the last unit) to
\* MantissaBits significant bits, to nearest, ties to even
RoundFloat(f, sticky) ==
    IF f.hi + f.mid + f.lo = 0 THEN f
    ELSE LET d == TopBit(f) - (MantissaBits - 1)
         IN  IF d <= 0 THEN f
             ELSE LET unit == 2 ^ d
                      half == 2 ^ (d - 1)
                      r    == f.lo % unit
                      odd  == (f.lo \div unit) % 2 = 1
                      up   == (r > half) \/ (r = half /\ (sticky \/ odd))
                  IN  Carry(f.neg, f.hi, f.mid,
                            (f.lo - r) + (IF up THEN unit ELSE 0))

\* float(n) for an int n
FromInt(n) ==
    MkFloat(n < 0, (IF n < 0 THEN -n ELSE n) * IntScale, 0, 0)

\* n / k for ints n and k > 0 (true division, correctly rounded)
IntDiv(n, k) ==
    LET a  == (IF n < 0 THEN -n ELSE n) * IntScale
        t  == (a % k) * LimbBase
        u  == (t % k) * LimbBase
    IN  RoundFloat(MkFloat(n < 0, a \div k, t \div k, u \div k), u % k # 0)

\* i * f for a small int i >= 0
IntMul(i, f) ==
    RoundFloat(Carry(f.neg, f.hi * i, f.mid * i, f.lo * i), FALSE)

MagLess(a, b) ==
    \/ a.hi < b.hi
    \/ a.hi = b.hi /\ a.mid < b.mid
    \/ a.hi = b.hi /\ a.mid = b.mid /\ a.lo < b.lo

\* the exact |a| - |b| for |a| >= |b|, with the sign s
MagSub(s, a, b) ==
    LET bl == IF a.lo < b.lo THEN 1 ELSE 0
        l  == a.lo - b.lo + bl * LimbBase
        bm == IF a.mid - bl < b.mid THEN 1 ELSE 0
        m  == a.mid - bl - b.mid + bm * LimbBase
    IN  MkFloat(s, a.hi - bm - b.hi, m, l)

\* a + b
FloatAdd(a, b) ==
    IF a.neg = b.neg
    THEN RoundFloat(Carry(a.neg, a.hi + b.hi, a.mid + b.mid, a.lo + b.lo), FALSE)
    ELSE IF MagLess(a, b) THEN RoundFloat(MagSub(b.neg, b, a), FALSE)
    ELSE RoundFloat(MagSub(a.neg, a, b), FALSE)

\* int(round(f)): nearest int, ties to even (what Image.crop does to its box)
PixelRound(f) ==
    LET ip   == f.hi \div IntScale
        fh   == f.hi % IntScale
        half == IntScale \div 2
        rest == f.mid + f.lo > 0
        up   == (fh > half) \/ (fh = half /\ (rest \/ ip % 2 = 1))
        mag  == ip + (IF up THEN 1 ELSE 0)
    IN  IF f.neg THEN -mag ELSE mag


(***************************************************************************)
(* The session's state.                                                    *)
(***************************************************************************)
VARIABLES
    uploaded,      \* st.file_uploader returned a file (line 42)
    page_count,    \* doc.page_count (line 49)
    target_month,  \* number_input 1..12 (line 53)
    first_monday,  \* date_input (line 56)
    x0, y0, x1, y1,\* number_input, ints (lines 61-64)
    dpi,           \* slider (line 65)
    selected,      \* st.selectbox's value (line 69): 1..page_count, 0 for None
    button,        \* st.button's value in this script run (line 100)
    pc,            \* where the script run is
    cache,         \* st.cache_data of get_page_image: <<page_idx, dpi>> held
    full_img,      \* the page drawn in the preview (line 73), -1: none
    p_idx,         \* the extraction loop's page (line 106)
    i,             \* the extraction loop's column (line 111)
    p_img,         \* the page held in p_img (line 107), -1: none
    saved_count,   \* line 102
    archive,       \* the entries written to zip_f, in order (line 123)
    zip_state,     \* "none", "open" or "closed" (line 104)
    raster_calls,  \* the page_idx of each get_page_image call of line 107
    progress,      \* pages reported to st.progress (line 125)
    outcome,       \* "none", "info", "success" (with download) or "warning"
    error          \* "none" or the exception that ended the script run

inputs == <<uploaded, page_count, target_month, first_monday,
            x0, y0, x1, y1, dpi, selected>>
run    == <<p_idx, i, p_img, saved_count, archive, zip_state,
            raster_calls, progress>>
vars   == <<inputs, button, pc, cache, full_img, run, outcome, error>>

(***************************************************************************)
(* Bounds of the model.                                                    *)
(***************************************************************************)
MaxPages == 5
MaxAnchorShift == 5
MaxSelected == 2
MaxGridX0 == 2
MaxGridX1 == 10
MaxGridY0 == 2
ExtraPages == 1

(***************************************************************************)
(* The inputs a session is checked with.                                   *)
(***************************************************************************)
\* the shifts reach the default 2026-01-01 and the Monday 2026-01-05
AnchorBase == MkDate(2025, 12, 31)
DefaultAnchor == MkDate(2026, 1, 1)
ExampleAnchor == MkDate(2026, 1, 5)
LeapAnchor == MkDate(2027, 12, 27)
Anchors == {DateAdd(AnchorBase, k) : k \in 0..MaxAnchorShift}
TargetMonths == 1..12
DefaultBand == <<DEFAULT_X0, DEFAULT_Y0, DEFAULT_X1, DEFAULT_Y1>>
ExampleBand == <<100, 140, 1680, 1160>>

\* the most pages whose cells cannot reach the same day of a later year
MaxCollisionFreePages == (DaysInCommonYear - 1) \div Columns

MkConfig(u, n, tm, fm, band, sel) ==
    [uploaded |-> u, page_count |-> n, target_month |-> tm,
     first_monday |-> fm, band |-> band, selected |-> sel]

\* the selectbox offers range(1, n + 1); with no option its value is None
Selections(n) == IF n = 0 THEN {0} ELSE {s \in 1..n : s <= MaxSelected}

\* documents of a few pages, every month, anchors around the new year
ShortConfigs ==
    UNION {{MkConfig(TRUE, n, tm, fm, band, sel) :
                tm \in TargetMonths, fm \in Anchors,
                band \in {ExampleBand}, sel \in Selections(n)} :
           n \in 0..MaxPages}

\* documents of about a year of pages
LongConfigs ==
    {MkConfig(TRUE, n, tm, fm, DefaultBand, 1) :
        n \in MaxCollisionFreePages..(MaxCollisionFreePages + ExtraPages),
        tm \in {1, 12}, fm \in {DefaultAnchor, LeapAnchor}}

\* one page whose seven cells are all in the target month, many bands
GridConfigs ==
    {MkConfig(TRUE, 1, 1, ExampleAnchor, <<a, b, c, 1>>, 1) :
        a \in (0 - MaxGridX0)..MaxGridX0, b \in 0..MaxGridY0,
        c \in 0..MaxGridX1}

Configs ==
    ShortConfigs \cup LongConfigs \cup GridConfigs
    \cup {MkConfig(FALSE, 0, 1, DefaultAnchor, DefaultBand, 0)}

(***************************************************************************)
(* The pure steps of main().                                               *)
(***************************************************************************)
\* line 71: the selectbox's value - 1
TemplatePage == selected - 1

\* (a variant of PageMonday: the page counted from 1, as the selectbox does)
PageMondayOneBased(p) == DateAdd(first_monday, (p + 1) * 7)

\* line 108: first_monday + timedelta(days=p_idx * 7)
PageMonday(p) == DateAdd(first_monday, p * 7)

\* line 112: p_monday + timedelta(days=i)
CurrDate(p, c) == DateAdd(PageMonday(p), c)

\* (a variant of IsSelected: later months kept too)
IsSelectedOrLater(dt) == dt.month >= target_month

\* line 113: the cell is kept unless curr_date.month != target_month
IsSelected(dt) == dt.month = target_month

\* line 110: w_step = (x1 - x0) / 7
WStep == IntDiv(x1 - x0, Columns)

\* line 116: d_left = x0 + i * w_step
DLeft(c) == FloatAdd(FromInt(x0), IntMul(c, WStep))

\* (a variant of DRight: the last column's edge accumulated like the others)
DRightAccumulated(c) == FloatAdd(DLeft(c), WStep)

\* line 117: d_right = d_left + w_step if i < 6 else x1
DRight(c) == IF c < 6 THEN FloatAdd(DLeft(c), WStep) ELSE FromInt(x1)

\* (a variant of FileName: the month instead of the day)
FileNameOfMonth(dt) == ToString(dt.month) \o ".png"

\* line 123: f"{curr_date.day}.png"
FileName(dt) == ToString(dt.day) \o ".png"

\* line 118: the box Image.crop cuts, in whole pixels
CropBox(c) == <<PixelRound(DLeft(c)), y0, PixelRound(DRight(c)), y1>>

\* a box with no pixel in it: cropping and encoding it may raise
EmptyBox(b) == b[3] <= b[1] \/ b[4] <= b[2]

\* (a variant of Entry: the crop taken from the preview's image)
EntryFromPreview(p, c) ==
    [name |-> FileName(CurrDate(p, c)), page |-> p, col |-> c,
     date |-> CurrDate(p, c), left |-> DLeft(c), right |-> DRight(c),
     box |-> CropBox(c), img |-> full_img]

\* the entry lines 116-123 write for cell (p_idx, i)
Entry(p, c) ==
    [name |-> FileName(CurrDate(p, c)), page |-> p, col |-> c,
     date |-> CurrDate(p, c), left |-> DLeft(c), right |-> DRight(c),
     box |-> CropBox(c), img |-> p_img]

(***************************************************************************)
(* Init: a fresh session; nothing is rendered or cached yet.               *)
(***************************************************************************)
Init ==
    /\ \E c \in Configs :
          /\ uploaded = c.uploaded
          /\ page_count = c.page_count
          /\ target_month = c.target_month
          /\ first_monday = c.first_monday
          /\ x0 = c.band[1] /\ y0 = c.band[2]
          /\ x1 = c.band[3] /\ y1 = c.band[4]
          /\ selected = c.selected
    /\ dpi = DEFAULT_DPI
    /\ button = FALSE
    /\ pc = "start"
    /\ cache = {}
    /\ full_img = -1
    /\ p_idx = 0 /\ i = 0 /\ p_img = -1
    /\ saved_count = 0
    /\ archive = <<>>
    /\ zip_state = "none"
    /\ raster_calls = <<>>
    /\ progress = 0
    /\ outcome = "none"
    /\ error = "none"

Raise(kind) == pc' = "error" /\ error' = kind

(***************************************************************************)
(* Lines 42-45: no file uploaded, the script run returns.                  *)
(***************************************************************************)
NoUpload ==
    /\ pc = "start" /\ ~uploaded
    /\ pc' = "returned" /\ outcome' = "info"
    /\ UNCHANGED <<inputs, button, cache, full_img, run, error>>

(***************************************************************************)
(* Lines 47-73: the widgets, then the preview page is rendered.  With no   *)
(* page the selectbox has no option and None - 1 raises.  A page already   *)
(* cached is not rendered again; rendering a page may fail.                *)
(***************************************************************************)
PreviewNoPage ==
    /\ pc = "start" /\ uploaded /\ selected = 0
    /\ Raise("TypeError")
    /\ UNCHANGED <<inputs, button, cache, full_img, run, outcome>>

PreviewRender ==
    /\ pc = "start" /\ uploaded /\ selected # 0
    /\ pc' = "preview"
    /\ cache' = cache \cup {<<TemplatePage, dpi>>}
    /\ full_img' = TemplatePage
    /\ UNCHANGED <<inputs, button, run, outcome, error>>

PreviewRenderFails ==
    /\ pc = "start" /\ uploaded /\ selected # 0
    /\ <<TemplatePage, dpi>> \notin cache
    /\ Raise("RenderFailure")
    /\ UNCHANGED <<inputs, button, cache, full_img, run, outcome>>

(***************************************************************************)
(* Lines 74-100: the preview is drawn and the button is shown.  Drawing or *)
(* cropping a band with no pixel in it may raise.  Without a press the     *)
(* script run ends here.                                                   *)
(***************************************************************************)
PreviewDraw ==
    /\ pc = "preview"
    /\ pc' = IF button THEN "begin" ELSE "idle"
    /\ UNCHANGED <<inputs, button, cache, full_img, run, outcome, error>>

PreviewDrawFails ==
    /\ pc = "preview" /\ ~button
    /\ EmptyBox(<<x0, y0, x1, y1>>)
    /\ Raise("ValueError")
    /\ UNCHANGED <<inputs, button, cache, full_img, run, outcome>>

(***************************************************************************)
(* The button is pressed: Streamlit runs the script again, with the same   *)
(* widget values and the same cache, and st.button returns True.           *)
(***************************************************************************)
PressButton ==
    /\ pc = "idle"
    /\ pc' = "start" /\ button' = TRUE
    /\ full_img' = -1
    /\ UNCHANGED <<inputs, cache, run, outcome, error>>

\* (a variant of BeginExtraction: the loop started at page 1)
BeginExtractionFromOne ==
    /\ pc = "begin"
    /\ pc' = "page"
    /\ zip_state' = "open"
    /\ saved_count' = 0
    /\ p_idx' = 1
    /\ progress' = 0
    /\ UNCHANGED <<inputs, button, cache, full_img, i, p_img, archive,
                   raster_calls, outcome, error>>

(***************************************************************************)
(* Lines 101-105: the archive is opened.                                   *)
(***************************************************************************)
BeginExtraction ==
    /\ pc = "begin"
    /\ pc' = "page"
    /\ zip_state' = "open"
    /\ saved_count' = 0
    /\ p_idx' = 0
    /\ progress' = 0
    /\ UNCHANGED <<inputs, button, cache, full_img, i, p_img, archive,
                   raster_calls, outcome, error>>

(***************************************************************************)
(* Lines 106-110: the next page is obtained from get_page_image.           *)
(***************************************************************************)
RasterizePage ==
    /\ pc = "page" /\ p_idx < page_count
    /\ pc' = "cell"
    /\ raster_calls' = Append(raster_calls, p_idx)
    /\ cache' = cache \cup {<<p_idx, dpi>>}
    /\ p_img' = p_idx
    /\ i' = 0
    /\ UNCHANGED <<inputs, button, full_img, p_idx, saved_count, archive,
                   zip_state, progress, outcome, error>>

\* (a variant of RasterizeFails: the failure caught, the loop left and the
\* entries written so far reported)
RasterizeFailsCaught ==
    /\ pc = "page" /\ p_idx < page_count
    /\ <<p_idx, dpi>> \notin cache
    /\ raster_calls' = Append(raster_calls, p_idx)
    /\ zip_state' = "closed"
    /\ pc' = "report" /\ error' = "RenderFailure"
    /\ UNCHANGED <<inputs, button, cache, full_img, p_idx, i, p_img,
                   saved_count, archive, progress, outcome>>

\* the exception leaves the with block, which closes the archive, and ends
\* the script run
RasterizeFails ==
    /\ pc = "page" /\ p_idx < page_count
    /\ <<p_idx, dpi>> \notin cache
    /\ raster_calls' = Append(raster_calls, p_idx)
    /\ zip_state' = "closed"
    /\ Raise("RenderFailure")
    /\ UNCHANGED <<inputs, button, cache, full_img, p_idx, i, p_img,
                   saved_count, archive, progress, outcome>>

(***************************************************************************)
(* Lines 111-124: one cell of the page.                                    *)
(***************************************************************************)
SkipCell ==
    /\ pc = "cell" /\ i < Columns
    /\ ~IsSelected(CurrDate(p_idx, i))
    /\ i' = i + 1
    /\ UNCHANGED <<inputs, button, pc, cache, full_img, p_idx, p_img,
                   saved_count, archive, zip_state, raster_calls, progress,
                   outcome, error>>

WriteCell ==
    /\ pc = "cell" /\ i < Columns
    /\ IsSelected(CurrDate(p_idx, i))
    /\ archive' = Append(archive, Entry(p_idx, i))
    /\ saved_count' = saved_count + 1
    /\ i' = i + 1
    /\ UNCHANGED <<inputs, button, pc, cache, full_img, p_idx, p_img,
                   zip_state, raster_calls, progress, outcome, error>>

CropFails ==
    /\ pc = "cell" /\ i < Columns
    /\ IsSelected(CurrDate(p_idx, i))
    /\ EmptyBox(CropBox(i))
    /\ zip_state' = "closed"
    /\ Raise("ValueError")
    /\ UNCHANGED <<inputs, button, cache, full_img, p_idx, i, p_img,
                   saved_count, archive, raster_calls, progress, outcome>>

(***************************************************************************)
(* Line 125: the page is done.                                             *)
(***************************************************************************)
EndPage ==
    /\ pc = "cell" /\ i = Columns
    /\ progress' = p_idx + 1
    /\ p_idx' = p_idx + 1
    /\ pc' = "page"
    /\ UNCHANGED <<inputs, button, cache, full_img, i, p_img, saved_count,
                   archive, zip_state, raster_calls, outcome, error>>

(***************************************************************************)
(* The loop is over: the with block closes the archive.                    *)
(***************************************************************************)
CloseArchive ==
    /\ pc = "page" /\ p_idx >= page_count
    /\ zip_state' = "closed"
    /\ pc' = "report"
    /\ UNCHANGED <<inputs, button, cache, full_img, p_idx, i, p_img,
                   saved_count, archive, raster_calls, progress, outcome,
                   error>>

(***************************************************************************)
(* Lines 127-135: success and the download, or the warning.                *)
(***************************************************************************)
Report ==
    /\ pc = "report"
    /\ outcome' = IF saved_count > 0 THEN "success" ELSE "warning"
    /\ pc' = "done"
    /\ UNCHANGED <<inputs, button, cache, full_img, run, error>>

Next ==
    \/ NoUpload
    \/ PreviewNoPage
    \/ PreviewRender
    \/ PreviewRenderFails
    \/ PreviewDraw
    \/ PreviewDrawFails
    \/ PressButton
    \/ BeginExtraction
    \/ RasterizePage
    \/ RasterizeFails
    \/ SkipCell
    \/ WriteCell
    \/ CropFails
    \/ EndPage
    \/ CloseArchive
    \/ Report

Spec == Init /\ [][Next]_vars

(***************************************************************************)
(* What the claims speak of.                                               *)
(***************************************************************************)
Cells == (0..(page_count - 1)) \X (0..(Columns - 1))

\* the date of a cell as the specification defines it
CellDate(cell) == DateAdd(first_monday, 7 * cell[1] + cell[2])

Matching == {cell \in Cells : CellDate(cell).month = target_month}

Written == {<<archive[k].page, archive[k].col>> : k \in 1..Len(archive)}

\* the cells the extraction loop has already passed
Passed ==
    {cell \in Cells :
        \/ cell[1] < p_idx
        \/ cell[1] = p_idx /\ pc = "cell" /\ cell[2] < i}

Extracting == pc \in {"page", "cell"}
Completed == pc \in {"report", "done"}
ValidBand == x1 > x0 /\ y1 > y0
Last(seq) == seq[Len(seq)]

(***************************************************************************)
(* C1: a cell is written to the archive if and only if the month of        *)
(* anchor + 7 * pageIndex + columnIndex days is the target month: nothing  *)
(* else is ever written, every matching cell the loop has passed is        *)
(* written, once, and a completed run has written exactly the matching     *)
(* cells.                                                                  *)
(***************************************************************************)
C1_MonthFilter ==
    /\ Written \subseteq Matching
    /\ Cardinality(Written) = Len(archive)
    /\ Extracting => Written = Matching \cap Passed
    /\ Completed => Written = Matching

C1_Witness ==
    /\ pc = "done"
    /\ Written # {}
    /\ Written # Cells

(***************************************************************************)
(* C2: no two entries of a run share a file name.  As claimed, for every   *)
(* page count (C2_NamesDistinct); as amended, for documents of at most     *)
(* MaxCollisionFreePages pages (C2_NamesDistinctWithinAYear).              *)
(***************************************************************************)
C2_NamesDistinct ==
    \A a, b \in 1..Len(archive) :
        a # b => archive[a].name # archive[b].name

C2_NamesDistinctWithinAYear ==
    page_count <= MaxCollisionFreePages =>
        \A a, b \in 1..Len(archive) :
            a # b => archive[a].name # archive[b].name

C2_Witness ==
    /\ pc = "done"
    /\ page_count = MaxCollisionFreePages
    /\ \E a, b \in 1..Len(archive) :
          archive[a].date.year # archive[b].date.year

(***************************************************************************)
(* C3: the date of every cell has the weekday of its column (Monday = 0),  *)
(* whatever anchor the date input supplies.                                *)
(***************************************************************************)
C3_WeekdayIsColumn ==
    \A k \in 1..Len(archive) : Weekday(archive[k].date) = archive[k].col

(***************************************************************************)
(* C4: a band without width or height fails the run before any page is    *)
(* rasterized and before any entry is cropped or written.                  *)
(***************************************************************************)
C4_InvalidGeometryFirst ==
    (uploaded /\ ~ValidBand) =>
        /\ cache = {}
        /\ raster_calls = <<>>
        /\ archive = <<>>

(***************************************************************************)
(* C5: the column rectangles tile the band.  As claimed, exactly: each     *)
(* column's right edge is the next one's left edge (C5_ExactTiling).  As   *)
(* amended: the first left edge is x0 and the last right edge is x1        *)
(* exactly, y0 and y1 pass through, and a column's right edge and the next *)
(* one's left edge differ by at most two units in the last place of the    *)
(* band's larger coordinate and round to the same pixel                    *)
(* (C5_TilingUpToRounding).                                                *)
(***************************************************************************)
Adjacent(a, b) ==
    archive[a].page = archive[b].page /\ archive[b].col = archive[a].col + 1

Abs(n) == IF n < 0 THEN 0 - n ELSE n

\* |a - b| <= 2 ulp of the band's larger coordinate
WithinBandTolerance(a, b) ==
    \/ a = b
    \/ /\ a.neg = b.neg
       /\ LET big   == IF MagLess(a, b) THEN b ELSE a
              small == IF MagLess(a, b) THEN a ELSE b
              diff  == MagSub(FALSE, big, small)
              top   == IF Abs(x0) > Abs(x1) THEN Abs(x0) ELSE Abs(x1)
              d     == TopBit(FromInt(top)) - (MantissaBits - 1)
          IN  diff.hi = 0 /\ diff.mid = 0 /\ diff.lo <= 2 ^ (d + 1)

C5_ExactTiling ==
    x1 > x0 =>
        /\ \A k \in 1..Len(archive) :
              /\ archive[k].col = 0 => archive[k].left = FromInt(x0)
              /\ archive[k].col = Columns - 1 => archive[k].right = FromInt(x1)
        /\ \A a, b \in 1..Len(archive) :
              Adjacent(a, b) => archive[a].right = archive[b].left

C5_TilingUpToRounding ==
    x1 > x0 =>
        /\ \A k \in 1..Len(archive) :
              /\ archive[k].col = 0 => archive[k].left = FromInt(x0)
              /\ archive[k].col = Columns - 1 => archive[k].right = FromInt(x1)
              /\ archive[k].col = 0 => archive[k].box[1] = x0
              /\ archive[k].col = Columns - 1 => archive[k].box[3] = x1
              /\ archive[k].box[2] = y0 /\ archive[k].box[4] = y1
        /\ \A a, b \in 1..Len(archive) :
              Adjacent(a, b) =>
                 /\ WithinBandTolerance(archive[a].right, archive[b].left)
                 /\ archive[a].box[3] = archive[b].box[1]

C5_Witness ==
    /\ pc = "done"
    /\ x1 > x0
    /\ \E p \in 0..(page_count - 1) :
          {p} \X (0..(Columns - 1)) \subseteq Written
    /\ \E a, b \in 1..Len(archive) :
          Adjacent(a, b) /\ archive[a].right # archive[b].left

(***************************************************************************)
(* C6: the run of the end-to-end example (anchor 2026-01-05, 5 pages,      *)
(* January) writes 27 entries, 2026-01-05 to 2026-01-31, named "5.png" to  *)
(* "31.png", and none for February.  As claimed, the cells not written are *)
(* those of page 4, columns 5 and 6 (C6_ExampleAsClaimed); as amended,     *)
(* they are the eight February cells: page 3 column 6 and all of page 4    *)
(* (C6_Example).                                                           *)
(***************************************************************************)
ExampleRun ==
    /\ pc = "done"
    /\ first_monday = ExampleAnchor
    /\ page_count = 5
    /\ target_month = 1
    /\ <<x0, y0, x1, y1>> = ExampleBand

ExampleEntries ==
    /\ Len(archive) = 27
    /\ saved_count = 27
    /\ \A k \in 1..Len(archive) :
          /\ archive[k].date = MkDate(2026, 1, k + 4)
          /\ archive[k].name = ToString(k + 4) \o ".png"
    /\ \A k \in 1..Len(archive) : archive[k].date.month # 2

C6_ExampleAsClaimed ==
    ExampleRun =>
        /\ ExampleEntries
        /\ Cells \ Written = {<<4, 5>>, <<4, 6>>}

C6_Example ==
    ExampleRun =>
        /\ ExampleEntries
        /\ Cells \ Written = {<<3, 6>>} \cup ({4} \X (0..(Columns - 1)))
        /\ \A cell \in Cells \ Written :
              CellDate(cell).year = 2026 /\ CellDate(cell).month = 2

C6_Witness ==
    ExampleRun /\ outcome = "success"

(***************************************************************************)
(* C7: an empty result is a valid outcome: when no cell is in the target   *)
(* month, a document of no page included, the run completes without        *)
(* raising, with saved_count = 0, a closed archive of no entry and the     *)
(* warning; and saved_count > 0 when a cell matches.  (A run ended by the  *)
(* rasterizer's or the imaging library's exception is left aside.)         *)
(***************************************************************************)
C7_EmptyResultValid ==
    (uploaded /\ pc \in {"done", "error"}
       /\ error \notin {"RenderFailure", "ValueError"}) =>
        /\ pc = "done"
        /\ Matching = {} =>
              /\ saved_count = 0 /\ archive = <<>>
              /\ zip_state = "closed" /\ outcome = "warning"
        /\ Matching # {} => saved_count > 0

(***************************************************************************)
(* C8: entries are written in ascending page order and, within a page, in  *)
(* ascending column order; every entry of page p is cut from page p's own  *)
(* image, after page p is rasterized and before page p + 1 is.             *)
(***************************************************************************)
C8_Ordered ==
    /\ \A a, b \in 1..Len(archive) :
          a < b =>
             \/ archive[a].page < archive[b].page
             \/ /\ archive[a].page = archive[b].page
                /\ archive[a].col < archive[b].col
    /\ \A k \in 1..Len(archive) :
          /\ archive[k].img = archive[k].page
          /\ archive[k].page <= Last(raster_calls)
    /\ \A a, b \in 1..Len(raster_calls) :
          a < b => raster_calls[a] < raster_calls[b]

C8_Step ==
    /\ archive' # archive =>
          /\ raster_calls' = raster_calls
          /\ Len(archive') = Len(archive) + 1
          /\ SubSeq(archive', 1, Len(archive)) = archive
          /\ Last(archive').page = Last(raster_calls)
          /\ Last(archive').page = p_img
    /\ raster_calls' # raster_calls =>
          /\ archive' = archive
          /\ Len(raster_calls') = Len(raster_calls) + 1
          /\ SubSeq(raster_calls', 1, Len(raster_calls)) = raster_calls
          /\ \A k \in 1..Len(archive) :
                archive[k].page < Last(raster_calls')

C8_Ordering == [](C8_Ordered) /\ [][C8_Step]_vars

C8_Witness ==
    /\ pc = "done"
    /\ \E a, b \in 1..Len(archive) :
          /\ archive[a].page = archive[b].page
          /\ archive[a].col < archive[b].col
    /\ \E a, b \in 1..Len(archive) : archive[a].page < archive[b].page

(***************************************************************************)
(* C9: the calls of get_page_image in the extraction loop.  As claimed,    *)
(* one for each page that has an entry and none for a page that has none,  *)
(* each with 0 <= pageIndex < pageCount (C9_OnlyPagesWithEntries).  As     *)
(* amended, one for every page 0 .. pageCount - 1 in ascending order,      *)
(* whether or not the page has an entry (C9_EveryPageOnce).                *)
(***************************************************************************)
PageHasEntry(p) == \E cell \in Matching : cell[1] = p

C9_OnlyPagesWithEntries ==
    /\ \A k \in 1..Len(raster_calls) :
          /\ raster_calls[k] \in 0..(page_count - 1)
          /\ PageHasEntry(raster_calls[k])
    /\ \A a, b \in 1..Len(raster_calls) :
          a # b => raster_calls[a] # raster_calls[b]
    /\ Completed =>
          \A p \in 0..(page_count - 1) :
             PageHasEntry(p) => \E k \in 1..Len(raster_calls) : raster_calls[k] = p

C9_EveryPageOnce ==
    /\ Len(raster_calls) <= page_count
    /\ \A k \in 1..Len(raster_calls) : raster_calls[k] = k - 1
    /\ pc = "page" => Len(raster_calls) = p_idx
    /\ pc = "cell" => Len(raster_calls) = p_idx + 1
    /\ Completed => Len(raster_calls) = page_count

C9_Witness ==
    /\ pc = "done"
    /\ \E k \in 1..Len(raster_calls) : ~PageHasEntry(raster_calls[k])
    /\ \E k \in 1..Len(raster_calls) : PageHasEntry(raster_calls[k])

(***************************************************************************)
(* C10: a page that fails to rasterize ends the run: the script run stops  *)
(* with the exception, no later page is asked for, and neither the success *)
(* message with the download nor the warning is given, also when entries   *)
(* of earlier pages are already in the archive.                            *)
(***************************************************************************)
C10_Aborted ==
    error = "RenderFailure" =>
        /\ pc = "error"
        /\ outcome = "none"
        /\ button =>
              /\ Last(raster_calls) = p_idx
              /\ Len(raster_calls) = p_idx + 1
              /\ progress = p_idx
              /\ \A k \in 1..Len(archive) : archive[k].page < p_idx

C10_RenderFailureAborts == [](C10_Aborted) /\ [][pc # "error"]_vars

C10_Witness ==
    /\ error = "RenderFailure"
    /\ button
    /\ archive # <<>>

=============================================================================
